---- MODULE Spec2Model ----
(***************************************************************************)
(* Model of scan_signal.py: the CDC Action Zone indicator                  *)
(* (calculate_cdc_action_zone), the per-symbol status (get_symbol_status), *)
(* the monitor loop of __main__ and the Telegram sink                      *)
(* (send_telegram_message).                                                *)
(*                                                                         *)
(* Floats are modelled as exact non-negative rationals [num, den] in       *)
(* lowest terms; NaN is the value with den = 0.  Every comparison with NaN *)
(* is false, arithmetic with NaN gives NaN.                                *)
(***************************************************************************)
EXTENDS Integers, Sequences, FiniteSets, TLC

\* ------------------------------------------------------------------------
\* Bounds of the model
\* ------------------------------------------------------------------------
MaxPrice == 2
MaxCandles == 3
MaxSymbols == 2
MaxChunks == 2

\* ------------------------------------------------------------------------
\* Program constants
\* ------------------------------------------------------------------------
PRD_1 == 12
PRD_2 == 26
AP_SPAN == 2
max_len == 4096
chunk_size == 4000

\* ------------------------------------------------------------------------
\* Floats
\* ------------------------------------------------------------------------
RECURSIVE GCD(_, _)
GCD(a, b) == IF b = 0 THEN a ELSE GCD(b, a % b)

NaN == [num |-> 0, den |-> 0]

IsNaN(x) == x.den = 0

Rat(n, d) ==
    LET g == GCD(n, d)
    IN  IF g = 0 THEN [num |-> 0, den |-> 1] ELSE [num |-> n \div g, den |-> d \div g]

\* a*x + b*y over c, for integer weights a, b, c (c > 0)
Mix(a, x, b, y, c) ==
    IF IsNaN(x) \/ IsNaN(y)
    THEN NaN
    ELSE Rat(a * x.num * y.den + b * y.num * x.den, c * x.den * y.den)

\* x < y on floats; false when either side is NaN.  The comparison is done
\* on the continued-fraction expansions, which needs no products.
RECURSIVE FracLess(_, _, _, _)
FracLess(an, ad, bn, bd) ==
    LET qa == an \div ad
        qb == bn \div bd
        ra == an % ad
        rb == bn % bd
    IN  IF qa # qb THEN qa < qb
        ELSE IF rb = 0 THEN FALSE
        ELSE IF ra = 0 THEN TRUE
        ELSE FracLess(bd, rb, ad, ra)

Less(x, y) ==
    IF IsNaN(x) \/ IsNaN(y) THEN FALSE ELSE FracLess(x.num, x.den, y.num, y.den)

\* ------------------------------------------------------------------------
\* Raw kline cells as the exchange returns them
\* ------------------------------------------------------------------------
NumCell(n) == [t |-> "num", v |-> n]
NoneCell == [t |-> "none", v |-> 0]
TextCell == [t |-> "text", v |-> 0]

Prices == 1..MaxPrice

\* numeric candles with Low <= Open, Close <= High
NumCandles ==
    { [Open |-> NumCell(o), High |-> NumCell(h), Low |-> NumCell(l), Close |-> NumCell(c)] :
        <<o, h, l, c>> \in { q \in Prices \X Prices \X Prices \X Prices :
                               /\ q[3] <= q[1] /\ q[1] <= q[2]
                               /\ q[3] <= q[4] /\ q[4] <= q[2] } }

NoneCandle == [Open |-> NoneCell, High |-> NoneCell, Low |-> NoneCell, Close |-> NoneCell]
TextCandle == [Open |-> TextCell, High |-> TextCell, Low |-> TextCell, Close |-> TextCell]

SeqsOf(S, n) == UNION { [1..k -> S] : k \in 1..n }

\* candle sequences handed to the indicator: all numeric, all missing, or
\* all non-numeric text
KlineInputs ==
    SeqsOf(NumCandles, MaxCandles) \cup SeqsOf({NoneCandle}, MaxCandles)
        \cup SeqsOf({TextCandle}, MaxCandles)

Doji(p) == [Open |-> NumCell(p), High |-> NumCell(p), Low |-> NumCell(p), Close |-> NumCell(p)]

\* the candle lists the data source returns in a monitor run: one or two
\* numeric candles at price 1 or 2 (flat, rising, falling), a candle whose
\* fields are all missing, or a candle whose fields are not numbers
FetchKlines == SeqsOf({Doji(1), Doji(2)}, 2) \cup {<<NoneCandle>>, <<TextCandle>>}

\* ------------------------------------------------------------------------
\* calculate_cdc_action_zone
\* ------------------------------------------------------------------------
Column(klines, name) == [i \in 1..Len(klines) |-> klines[i][name]]

\* Series.astype(float): raises ValueError on a non-numeric string, None
\* becomes NaN
astype_raises(col) == \E i \in 1..Len(col) : col[i].t = "text"

astype_float(col) ==
    [i \in 1..Len(col) |-> IF col[i].t = "num" THEN Rat(col[i].v, 1) ELSE NaN]

\* (Open + High + Low + Close) / 4
src_series(o, h, l, c) ==
    [i \in 1..Len(o) |-> Mix(1, Mix(1, o[i], 1, h[i], 1), 1, Mix(1, l[i], 1, c[i], 1), 4)]

\* Series.ewm(span, adjust=False).mean():
\* y[0] = x[0], y[i] = alpha*x[i] + (1-alpha)*y[i-1], alpha = 2/(span+1).
\* A series of NaN stays NaN and an unchanged value is carried over as it
\* is; the candle sequences used here are numeric throughout or missing
\* throughout, so no gap falls between two observations.
RECURSIVE ewm_at(_, _, _)
ewm_at(x, span, i) ==
    IF i = 1 THEN x[1]
    ELSE LET prev == ewm_at(x, span, i - 1)
         IN  IF IsNaN(prev) THEN x[i]
             ELSE IF IsNaN(x[i]) THEN prev
             ELSE IF prev = x[i] THEN prev
             ELSE Mix(2, x[i], span - 1, prev, span + 1)

ewm_mean(x, span) == [i \in 1..Len(x) |-> ewm_at(x, span, i)]

\* Series.shift(1): the first cell is missing, the others move down by one
shift1(col) ==
    [i \in 1..Len(col) |->
        IF i = 1 THEN "NaN" ELSE IF col[i - 1] THEN "True" ELSE "False"]

Bullish_col(fast, slow) == [i \in 1..Len(fast) |-> Less(slow[i], fast[i])]

\* the Bullish comparison pasted unchanged into the Bearish line
Bearish_col_pasted(fast, slow) == [i \in 1..Len(fast) |-> Less(slow[i], fast[i])]

Bearish_col(fast, slow) == [i \in 1..Len(fast) |-> Less(fast[i], slow[i])]

\* the level instead of its rising edge: the shift(1) term left out
Edge_col_level(col) == [i \in 1..Len(col) |-> col[i] = TRUE]

\* (col == True) & (col.shift(1) == False)
Edge_col(col) == [i \in 1..Len(col) |-> (col[i] = TRUE) /\ (shift1(col)[i] = "False")]

calculate_raises(klines) ==
    \E name \in {"Open", "High", "Low", "Close"} : astype_raises(Column(klines, name))

calculate_cdc_action_zone(klines) ==
    LET o == astype_float(Column(klines, "Open"))
        h == astype_float(Column(klines, "High"))
        l == astype_float(Column(klines, "Low"))
        c == astype_float(Column(klines, "Close"))
        ap == ewm_mean(src_series(o, h, l, c), AP_SPAN)
        fast == ewm_mean(ap, PRD_1)
        slow == ewm_mean(ap, PRD_2)
        bull == Bullish_col(fast, slow)
        bear == Bearish_col(fast, slow)
    IN  [Close |-> c, Fast_MA |-> fast, Slow_MA |-> slow,
         Bullish |-> bull, Bearish |-> bear,
         Buy_Signal |-> Edge_col(bull), Sell_Signal |-> Edge_col(bear)]

\* ------------------------------------------------------------------------
\* get_klines_data / get_symbol_status
\* ------------------------------------------------------------------------
Symbols == {"A", "B"}

\* what the exchange answers to one request: a transport or HTTP error, or a
\* JSON list of candles (possibly empty)
Responses ==
    {[kind |-> "error", data |-> <<>>]}
        \cup { [kind |-> "json", data |-> k] : k \in FetchKlines \cup {<<>>} }

\* the parsed JSON, or "None" after a RequestException
get_klines_data(resp) ==
    IF resp.kind = "error" THEN [none |-> TRUE, data |-> <<>>]
    ELSE [none |-> FALSE, data |-> resp.data]

\* the first candle read instead of the latest: iloc[0] for iloc[-1]
status_text_first(df) ==
    IF df.Bullish[1] THEN "Up Trend" ELSE "Down Trend"

status_text(df) ==
    IF df.Bullish[Len(df.Bullish)] THEN "Up Trend" ELSE "Down Trend"

signal_text(df) ==
    IF df.Buy_Signal[Len(df.Buy_Signal)] THEN "Buy"
    ELSE IF df.Sell_Signal[Len(df.Sell_Signal)] THEN "Sell"
    ELSE "No Signal"

result_data(symbol, df) ==
    [Symbol |-> symbol, Status |-> status_text(df), Signal |-> signal_text(df),
     Close |-> df.Close[Len(df.Close)]]

NoData == [Symbol |-> "", Status |-> "", Signal |-> "", Close |-> NaN]

\* ret = "None": nothing fetched; "raise": an exception leaves the function;
\* "dict": result_data is returned
get_symbol_status(symbol, resp) ==
    LET klines == get_klines_data(resp)
    IN  IF klines.none \/ klines.data = <<>> THEN [ret |-> "None", data |-> NoData]
        ELSE IF calculate_raises(klines.data) THEN [ret |-> "raise", data |-> NoData]
        ELSE [ret |-> "dict",
              data |-> result_data(symbol, calculate_cdc_action_zone(klines.data))]

\* ------------------------------------------------------------------------
\* Report
\* ------------------------------------------------------------------------
\* f"{x:,.4f}": the value in units of 0.0001, or nan
format_close(x) ==
    IF IsNaN(x) THEN [nan |-> TRUE, e4 |-> 0]
    ELSE [nan |-> FALSE, e4 |-> (2 * 10000 * x.num + x.den) \div (2 * x.den)]

\* only the results that carry a signal make it into the table
table_rows_signals(results) ==
    LET keep == SelectSeq(results, LAMBDA r : r.Signal # "No Signal")
    IN  [i \in 1..Len(keep) |->
            [Symbol |-> keep[i].Symbol, Status |-> keep[i].Status,
             Signal |-> keep[i].Signal, Close |-> format_close(keep[i].Close)]]

\* results_df with the Close column formatted, one table row per result
table_rows(results) ==
    [i \in 1..Len(results) |->
        [Symbol |-> results[i].Symbol, Status |-> results[i].Status,
         Signal |-> results[i].Signal, Close |-> format_close(results[i].Close)]]

\* len(final_message): the rendered text is kept as its rows and its length;
\* the length depends on the symbol names and the digits of the prices and
\* is taken at, just above and well above Telegram's limit
MessageLens == {max_len, max_len + 1, MaxChunks * chunk_size}

\* [message[i:i + chunk_size] for i in range(0, len(message), chunk_size)]
split_message(len) ==
    IF len > max_len
    THEN [k \in 1..((len + chunk_size - 1) \div chunk_size) |->
            [from |-> (k - 1) * chunk_size,
             to |-> IF k * chunk_size < len THEN k * chunk_size ELSE len]]
    ELSE << [from |-> 0, to |-> len] >>

\* ------------------------------------------------------------------------
\* State
\* ------------------------------------------------------------------------
VARIABLES
    SYMBOLS,        \* the configured symbol list
    pc,             \* position of __main__: "loop", "sending", "finished"
    idx,            \* number of symbols the for loop has taken
    all_results,    \* list of result_data
    outcomes,       \* per symbol taken: what its request and processing did
    events,         \* requests to the exchange and time.sleep calls of the loop
    final_message,  \* the message built by __main__: rows and length
    sink_calls,     \* messages handed to send_telegram_message
    spc,            \* position of send_telegram_message
    message_parts,  \* the parts of the message being sent
    part,           \* number of parts the sink loop has taken
    attempts,       \* requests.post calls: part and whether it was delivered
    klines_in,      \* indicator study: the candle sequence
    df,             \* indicator study: the computed columns
    study           \* indicator study: "input", "calculated", "raised", "result"

pipeline_vars ==
    <<SYMBOLS, pc, idx, all_results, outcomes, events, final_message, sink_calls>>

sink_vars == <<spc, message_parts, part, attempts>>

study_vars == <<klines_in, df, study>>

vars == <<pipeline_vars, sink_vars, study_vars>>

NoMessage == [rows |-> <<>>, len |-> 0]

NoFrame == calculate_cdc_action_zone(<<>>)

SymbolLists == {<<>>} \cup SeqsOf(Symbols, MaxSymbols)

PipelineInit ==
    /\ SYMBOLS \in SymbolLists
    /\ pc = "loop"
    /\ idx = 0
    /\ all_results = <<>>
    /\ outcomes = <<>>
    /\ events = <<>>
    /\ final_message = NoMessage
    /\ sink_calls = <<>>

SinkIdle ==
    /\ spc = "idle"
    /\ message_parts = <<>>
    /\ part = 0
    /\ attempts = <<>>

StudyIdle ==
    /\ klines_in = <<>>
    /\ df = NoFrame
    /\ study = "idle"

Init == PipelineInit /\ SinkIdle /\ StudyIdle

\* ------------------------------------------------------------------------
\* __main__
\* ------------------------------------------------------------------------
Request(symbol) == [e |-> "request", sym |-> symbol]
Sleep(symbol) == [e |-> "sleep", sym |-> symbol]

Outcome(resp) ==
    IF resp.kind = "error" THEN "fetch_failed"
    ELSE IF resp.data = <<>> THEN "fetch_empty"
    ELSE IF calculate_raises(resp.data) THEN "raised"
    ELSE "computed"

\* the try/except placed around the loop instead of inside it: the first
\* exception ends the loop
ProcessSymbol_outer_try ==
    /\ pc = "loop"
    /\ idx < Len(SYMBOLS)
    /\ \E resp \in Responses :
        LET symbol == SYMBOLS[idx + 1]
            status == get_symbol_status(symbol, resp)
        IN  /\ outcomes' = Append(outcomes, Outcome(resp))
            /\ IF status.ret = "raise"
               THEN /\ events' = Append(events, Request(symbol))
                    /\ all_results' = all_results
                    /\ idx' = Len(SYMBOLS)
               ELSE /\ events' = events \o <<Request(symbol), Sleep(symbol)>>
                    /\ all_results' =
                         IF status.ret = "dict" THEN Append(all_results, status.data)
                         ELSE all_results
                    /\ idx' = idx + 1
    /\ UNCHANGED <<SYMBOLS, pc, final_message, sink_calls>>
    /\ UNCHANGED <<sink_vars, study_vars>>

\* one iteration of "for symbol in SYMBOLS" (try body and except clause)
ProcessSymbol ==
    /\ pc = "loop"
    /\ idx < Len(SYMBOLS)
    /\ \E resp \in Responses :
        LET symbol == SYMBOLS[idx + 1]
            status == get_symbol_status(symbol, resp)
        IN  /\ outcomes' = Append(outcomes, Outcome(resp))
            /\ IF status.ret = "raise"
               THEN /\ events' = Append(events, Request(symbol))
                    /\ all_results' = all_results
               ELSE /\ events' = events \o <<Request(symbol), Sleep(symbol)>>
                    /\ all_results' =
                         IF status.ret = "dict" THEN Append(all_results, status.data)
                         ELSE all_results
    /\ idx' = idx + 1
    /\ UNCHANGED <<SYMBOLS, pc, final_message, sink_calls>>
    /\ UNCHANGED <<sink_vars, study_vars>>

\* the emptiness test left out: an empty report is built and sent
NoResults_sends ==
    /\ pc = "loop"
    /\ idx = Len(SYMBOLS)
    /\ all_results = <<>>
    /\ final_message' = [rows |-> table_rows(all_results), len |-> max_len]
    /\ sink_calls' = Append(sink_calls, final_message')
    /\ pc' = "sending"
    /\ spc' = "called"
    /\ UNCHANGED <<SYMBOLS, idx, all_results, outcomes, events>>
    /\ UNCHANGED <<message_parts, part, attempts, study_vars>>

\* "if not all_results": nothing to report, the run ends
NoResults ==
    /\ pc = "loop"
    /\ idx = Len(SYMBOLS)
    /\ all_results = <<>>
    /\ pc' = "finished"
    /\ UNCHANGED <<SYMBOLS, idx, all_results, outcomes, events,
                   final_message, sink_calls>>
    /\ UNCHANGED <<sink_vars, study_vars>>

\* the else branch: build final_message and call send_telegram_message
BuildAndSend ==
    /\ pc = "loop"
    /\ idx = Len(SYMBOLS)
    /\ all_results # <<>>
    /\ \E n \in MessageLens :
        final_message' = [rows |-> table_rows(all_results), len |-> n]
    /\ sink_calls' = Append(sink_calls, final_message')
    /\ pc' = "sending"
    /\ spc' = "called"
    /\ UNCHANGED <<SYMBOLS, idx, all_results, outcomes, events>>
    /\ UNCHANGED <<message_parts, part, attempts, study_vars>>

\* send_telegram_message has returned: "Monitor run finished"
Finish ==
    /\ pc = "sending"
    /\ spc \in {"returned", "skipped"}
    /\ pc' = "finished"
    /\ UNCHANGED <<SYMBOLS, idx, all_results, outcomes, events,
                   final_message, sink_calls>>
    /\ UNCHANGED <<sink_vars, study_vars>>

\* ------------------------------------------------------------------------
\* send_telegram_message
\* ------------------------------------------------------------------------
\* the credential check (token_set: TELEGRAM_BOT_TOKEN and TELEGRAM_CHAT_ID
\* are both set in the environment) and the split of the message
SinkEnter ==
    /\ spc = "called"
    /\ \E token_set \in BOOLEAN :
        IF token_set
        THEN /\ message_parts' = split_message(final_message.len)
             /\ spc' = "parts"
        ELSE /\ message_parts' = message_parts
             /\ spc' = "skipped"
    /\ UNCHANGED <<part, attempts, pipeline_vars, study_vars>>

\* the except clauses left out: a failed post leaves the loop and the
\* function
SendPart_uncaught ==
    /\ spc = "parts"
    /\ part < Len(message_parts)
    /\ \E delivered \in BOOLEAN :
        /\ attempts' = Append(attempts, [part |-> part + 1, ok |-> delivered])
        /\ spc' = IF delivered THEN spc ELSE "returned"
    /\ part' = part + 1
    /\ UNCHANGED <<message_parts, pipeline_vars, study_vars>>

\* one iteration of "for part in message_parts": the post, either except
\* clause, and the pause
SendPart ==
    /\ spc = "parts"
    /\ part < Len(message_parts)
    /\ \E delivered \in BOOLEAN :
        attempts' = Append(attempts, [part |-> part + 1, ok |-> delivered])
    /\ part' = part + 1
    /\ UNCHANGED <<spc, message_parts, pipeline_vars, study_vars>>

SinkReturn ==
    /\ spc = "parts"
    /\ part = Len(message_parts)
    /\ spc' = "returned"
    /\ UNCHANGED <<message_parts, part, attempts, pipeline_vars, study_vars>>

Next ==
    \/ ProcessSymbol
    \/ NoResults
    \/ BuildAndSend
    \/ Finish
    \/ SinkEnter
    \/ SendPart
    \/ SinkReturn

Spec == Init /\ [][Next]_vars

\* ------------------------------------------------------------------------
\* The indicator on its own: get_symbol_status from the fetched candles on
\* ------------------------------------------------------------------------
StudyInit ==
    /\ SYMBOLS = <<>>
    /\ pc = "loop"
    /\ idx = 0
    /\ all_results = <<>>
    /\ outcomes = <<>>
    /\ events = <<>>
    /\ final_message = NoMessage
    /\ sink_calls = <<>>
    /\ SinkIdle
    /\ klines_in \in KlineInputs
    /\ df = NoFrame
    /\ study = "input"

\* df_with_signals = calculate_cdc_action_zone(df)
Calculate ==
    /\ study = "input"
    /\ IF calculate_raises(klines_in)
       THEN /\ study' = "raised"
            /\ df' = df
       ELSE /\ study' = "calculated"
            /\ df' = calculate_cdc_action_zone(klines_in)
    /\ UNCHANGED <<klines_in, pipeline_vars, sink_vars>>

\* the labels of the latest candle and result_data
Classify ==
    /\ study = "calculated"
    /\ study' = "result"
    /\ all_results' = <<result_data("A", df)>>
    /\ UNCHANGED <<klines_in, df, SYMBOLS, pc, idx, outcomes, events,
                   final_message, sink_calls, sink_vars>>

StudyNext == Calculate \/ Classify

SpecStudy == StudyInit /\ [][StudyNext]_vars

\* ------------------------------------------------------------------------
\* Properties
\* ------------------------------------------------------------------------
RECURSIVE ComputedSymbols(_)
ComputedSymbols(n) ==
    IF n = 0 THEN <<>>
    ELSE IF outcomes[n] = "computed"
         THEN Append(ComputedSymbols(n - 1), SYMBOLS[n])
         ELSE ComputedSymbols(n - 1)

Requested == SelectSeq(events, LAMBDA ev : ev.e = "request")

\* C1: every symbol of the list is requested, in list order, whatever the
\* earlier symbols did, and when the loop is over all of the list has been
\* taken; the recorded results are exactly the symbols whose processing
\* returned a result, in list order.
C1_SkipAndContinue ==
    /\ Len(outcomes) = idx
    /\ idx <= Len(SYMBOLS)
    /\ [i \in 1..Len(Requested) |-> Requested[i].sym] = SubSeq(SYMBOLS, 1, idx)
    /\ [i \in 1..Len(all_results) |-> all_results[i].Symbol] = ComputedSymbols(idx)
    /\ (pc # "loop" => idx = Len(SYMBOLS))

\* C1 witness: a finished run in which a failed fetch and a raised error are
\* each followed by a symbol that is recorded, a duplicate being recorded twice
C1_Witness ==
    /\ pc = "finished"
    /\ Len(SYMBOLS) >= 2
    /\ outcomes[1] \in {"fetch_failed", "fetch_empty", "raised"}
    /\ outcomes[Len(SYMBOLS)] = "computed"
    /\ all_results # <<>>

\* C2: with no recorded result no message is built and the sink is never
\* called; the sink is called only with at least one result, at most once,
\* with the message that lists all of them, and a finished run that has
\* results has called it exactly once.
C2_NoDataNoDelivery ==
    /\ (all_results = <<>> =>
          /\ sink_calls = <<>>
          /\ final_message = NoMessage
          /\ spc = "idle"
          /\ attempts = <<>>)
    /\ Len(sink_calls) <= 1
    /\ (sink_calls # <<>> =>
          /\ sink_calls = <<final_message>>
          /\ Len(final_message.rows) = Len(all_results))
    /\ (pc = "finished" /\ all_results # <<>> => Len(sink_calls) = 1)

\* C2 witness: a finished run over a non-empty list in which nothing was
\* fetched
C2_Witness ==
    /\ pc = "finished"
    /\ Len(SYMBOLS) >= 1
    /\ \A i \in 1..Len(outcomes) : outcomes[i] \in {"fetch_failed", "fetch_empty"}
    /\ sink_calls = <<>>

LatestFast == df.Fast_MA[Len(df.Fast_MA)]
LatestSlow == df.Slow_MA[Len(df.Slow_MA)]

\* C3 (as claimed): the trend label is Up when fast_avg > slow_avg at the
\* latest candle, Down when fast_avg < slow_avg, and Neutral otherwise.
C3_TrendLabel ==
    study = "result" =>
        all_results[1].Status =
            IF Less(LatestSlow, LatestFast) THEN "Up Trend"
            ELSE IF Less(LatestFast, LatestSlow) THEN "Down Trend"
            ELSE "Neutral"

AllNonNumeric(klines) ==
    \A i \in 1..Len(klines) :
        \A name \in {"Open", "High", "Low", "Close"} : klines[i][name].t # "num"

\* C4 (as claimed): candles whose OHLC fields are all non-numeric are
\* processed without an error and give a result with trend Neutral and no
\* signal.
C4_AllMissingNeutral ==
    (study \in {"raised", "result"} /\ AllNonNumeric(klines_in)) =>
        /\ study = "result"
        /\ all_results[1].Status = "Neutral"
        /\ all_results[1].Signal = "No Signal"

Actionable(results) == SelectSeq(results, LAMBDA r : r.Signal \in {"Buy", "Sell"})

\* the blocks of final_message: header, then the fenced table
Blocks(msg) == << [kind |-> "header", rows |-> <<>>], [kind |-> "table", rows |-> msg.rows] >>

SameRows(rows, results) ==
    /\ Len(rows) = Len(results)
    /\ \A i \in 1..Len(rows) :
        /\ rows[i].Symbol = results[i].Symbol
        /\ rows[i].Status = results[i].Status
        /\ rows[i].Signal = results[i].Signal

C6_SignalTrendConsistent ==
    study = "result" =>
        /\ (all_results[1].Signal = "Buy" =>
              all_results[1].Status = "Up Trend" /\ df.Bullish[Len(klines_in)])
        /\ (all_results[1].Signal = "Sell" =>
              all_results[1].Status = "Down Trend" /\ df.Bearish[Len(klines_in)])

\* C6 witness: a Buy at the third candle after a candle that was not bullish
C6_Witness ==
    /\ study = "result"
    /\ Len(klines_in) = 3
    /\ all_results[1].Signal = "Buy"

\* C7: Buy_Signal[i] holds exactly when i is not the first index, Bullish[i]
\* holds and Bullish[i-1] does not; Sell_Signal likewise on Bearish; a
\* one-candle sequence gives no signal.
C7_RisingEdge ==
    /\ study \in {"calculated", "result"} =>
          \A i \in 1..Len(klines_in) :
              /\ df.Buy_Signal[i] = (i >= 2 /\ df.Bullish[i] /\ ~df.Bullish[i - 1])
              /\ df.Sell_Signal[i] = (i >= 2 /\ df.Bearish[i] /\ ~df.Bearish[i - 1])
    /\ (study = "result" /\ Len(klines_in) = 1) => all_results[1].Signal = "No Signal"

\* C7 witness: a candle that is bullish after a bullish candle, so that the
\* level and its edge differ
C7_Witness ==
    /\ study = "calculated"
    /\ \E i \in 2..Len(klines_in) :
        df.Bullish[i] /\ df.Bullish[i - 1] /\ df.Buy_Signal[i - 1]

\* C8: at no index are Bullish and Bearish both true, and at no index are
\* Buy_Signal and Sell_Signal both true.
C8_MutuallyExclusive ==
    study \in {"calculated", "result"} =>
        \A i \in 1..Len(klines_in) :
            /\ ~(df.Bullish[i] /\ df.Bearish[i])
            /\ ~(df.Buy_Signal[i] /\ df.Sell_Signal[i])

\* C8 witness: a sequence with a Buy_Signal at some candle
C8_Witness ==
    /\ study = "calculated"
    /\ \E i \in 1..Len(klines_in) : df.Buy_Signal[i]

\* C9: once past its credential check, the sink takes the parts of the message one by
\* one in order, each once, whether or not the parts before were delivered;
\* it returns only when all parts were attempted, and the run is never stuck
\* before its end.
C9_EveryPartAttempted ==
    /\ spc \in {"parts", "returned"} =>
          /\ message_parts = split_message(final_message.len)
          /\ Len(attempts) = part
          /\ \A i \in 1..Len(attempts) : attempts[i].part = i
          /\ (spc = "returned" => part = Len(message_parts))
    /\ (spc = "skipped" => attempts = <<>>)
    /\ (pc = "finished" => spc \in {"idle", "skipped", "returned"})
    /\ (pc # "finished" => ENABLED Next)

\* C9 witness: a finished run whose message went out in several parts, the
\* first of which failed
C9_Witness ==
    /\ pc = "finished"
    /\ Len(message_parts) >= 2
    /\ Len(attempts) = Len(message_parts)
    /\ ~attempts[1].ok

\* C10 (as claimed): between the requests of two consecutive symbols the loop
\* sleeps, whatever the earlier symbol did.
C10_PacedRequests ==
    \A i \in 1..(Len(events) - 1) :
        events[i].e = "request" => events[i + 1].e = "sleep"

====
